---- MODULE Spec2Model ----
(***************************************************************************)
(* A model of src/main.rs: an L-system (symbol rewriting with rules1) and  *)
(* its two turtle passes, LSystem::draw and get_drawing_dimensions.        *)
(*                                                                         *)
(* Numbers.  Every angle in the program is a multiple of PI/4 and every    *)
(* length a multiple of 5, so the model computes exactly in Z[sqrt 2]:     *)
(*   - an angle is an integer number of eighth turns (PI * 0.25 = 1,       *)
(*     PI * 0.5 = 2); it is never reduced, as `radians += rad` is not;     *)
(*   - a coordinate is a pair <<a, b>> standing for 1.25 * (a + b*sqrt 2), *)
(*     so 10.0 is <<8, 0>> and 10 * cos(PI/4) is <<0, 4>>.                 *)
(* The rounding of f32 is not modelled.                                    *)
(***************************************************************************)
EXTENDS Integers, Sequences, FiniteSets, TLC

VARIABLES
    state,       \* lsys.state: the sequence of LSystemSymbol
    dimensions,  \* lsys.dimensions
    gen,         \* number of proceed_system calls made by model()
    old,         \* lsys.state as it was when the last proceed_system began
    rules_arg,   \* the `rules` argument of the last proceed_system call
    pc,          \* "model" | "draw" | "idle" | "panicked"
    i,           \* draw: index of the symbol of the outer for loop
    j,           \* draw: index of the action of the inner for loop
    curr_state,  \* draw: the cursor (a Config)
    stack,       \* draw: the Vec<Config> of saved cursors
    lines,       \* draw: the line primitives handed to nannou, in order
    trace        \* draw: the (cursor, stack) before the first and after each action

vars == <<state, dimensions, gen, old, rules_arg, pc, i, j, curr_state, stack,
          lines, trace>>

----------------------------------------------------------------------------
(* Bounds of the model *)

MaxGen == 5
MaxLen == 2
MaxGenAny == 2

----------------------------------------------------------------------------
(* Exact arithmetic on coordinates 1.25 * (a + b * sqrt 2) *)

Zero == <<0, 0>>

Num(n) == <<(n * 4) \div 5, 0>>

Add(c, d) == <<c[1] + d[1], c[2] + d[2]>>

Sub(c, d) == <<c[1] - d[1], c[2] - d[2]>>

Neg(c) == <<0 - c[1], 0 - c[2]>>

Half(c) == <<c[1] \div 2, c[2] \div 2>>

\* a + b * sqrt 2 < 0, decided on the integers
Negative(c) ==
    LET a == c[1]
        b == c[2]
    IN  \/ a < 0 /\ b <= 0
        \/ a <= 0 /\ b < 0
        \/ a < 0 /\ b > 0 /\ a * a > 2 * b * b
        \/ a > 0 /\ b < 0 /\ 2 * b * b > a * a

Less(c, d) == Negative(Sub(c, d))

\* 5 * cos(k eighth turns) as a coordinate, k = 0..7
CosTable == <<  <<4, 0>>, <<0, 2>>, <<0, 0>>, <<0, -2>>,
                <<-4, 0>>, <<0, -2>>, <<0, 0>>, <<0, 2>>  >>

Cos(radians) == CosTable[(radians % 8) + 1]

Sin(radians) == CosTable[((radians - 2) % 8) + 1]

\* a coordinate of Vector2::new(cos, sin) * length, length a multiple of 5
Scale(c, length) == <<c[1] * (length \div 5), c[2] * (length \div 5)>>

Vec(x, y) == [x |-> x, y |-> y]

VecAdd(p, q) == Vec(Add(p.x, q.x), Add(p.y, q.y))

----------------------------------------------------------------------------
(* The data types *)

Variables == {"A", "B", "C", "D", "E", "F", "G", "H"}

Rotate(rad) == <<"Rotate", rad>>
DrawLine(length) == <<"DrawLine", length>>
Push == <<"Push">>
Pop == <<"Pop">>

Variable(v, actions) == [kind |-> "Variable", v |-> v, actions |-> actions]
Constant(actions) == [kind |-> "Constant", actions |-> actions]

Config(position, radians) == [position |-> position, radians |-> radians]

axiom_config_heading_zero == Config(Vec(Zero, Zero), 0)

axiom_config == Config(Vec(Zero, Zero), 2)

axiom == [state |-> << Variable("A", <<DrawLine(10)>>) >>,
          dimensions |-> Vec(Zero, Num(10))]

----------------------------------------------------------------------------
(* The rule tables *)

rules1_unbalanced(var) ==
    CASE var = "A" -> << Variable("B", <<DrawLine(10)>>),
                         Constant(<<Pop, Rotate(1)>>),
                         Variable("A", <<DrawLine(10)>>),
                         Constant(<<Push, Rotate(-1)>>),
                         Variable("A", <<DrawLine(10)>>) >>
      [] var = "B" -> << Variable("B", <<DrawLine(10)>>),
                         Variable("B", <<DrawLine(10)>>) >>
      [] OTHER -> << >>

rules1_keeps_unmatched(var) ==
    CASE var = "A" -> << Variable("B", <<DrawLine(10)>>),
                         Constant(<<Push, Rotate(1)>>),
                         Variable("A", <<DrawLine(10)>>),
                         Constant(<<Pop, Rotate(-1)>>),
                         Variable("A", <<DrawLine(10)>>) >>
      [] var = "B" -> << Variable("B", <<DrawLine(10)>>),
                         Variable("B", <<DrawLine(10)>>) >>
      [] OTHER -> << Variable(var, <<DrawLine(10)>>) >>

rules1_terminating(var) ==
    CASE var = "A" -> << Variable("B", <<DrawLine(10)>>),
                         Constant(<<Push, Rotate(1)>>),
                         Variable("B", <<DrawLine(10)>>),
                         Constant(<<Pop, Rotate(-1)>>),
                         Variable("B", <<DrawLine(10)>>) >>
      [] var = "B" -> << Variable("B", <<DrawLine(10)>>) >>
      [] OTHER -> << >>

rules1(var) ==
    CASE var = "A" -> << Variable("B", <<DrawLine(10)>>),
                         Constant(<<Push, Rotate(1)>>),
                         Variable("A", <<DrawLine(10)>>),
                         Constant(<<Pop, Rotate(-1)>>),
                         Variable("A", <<DrawLine(10)>>) >>
      [] var = "B" -> << Variable("B", <<DrawLine(10)>>),
                         Variable("B", <<DrawLine(10)>>) >>
      [] OTHER -> << >>

----------------------------------------------------------------------------
(* LSystem::draw: one iteration of an inner loop, by arm of the match.     *)
(* A pass is a record of the pass's locals; panicked records that          *)
(* stack.pop().unwrap() was reached with an empty stack.                   *)

DrawPass(cs, st, ln, panicked) ==
    [curr_state |-> cs, stack |-> st, lines |-> ln, panicked |-> panicked]

\* a line handed to nannou; color is the .rgb() of the call chain, or
\* <<"theme">> where the chain sets none and nannou's theme decides
Line(start, end, color) == [start |-> start, end |-> end, color |-> color]

Dir(radians, length) == Vec(Scale(Cos(radians), length), Scale(Sin(radians), length))

Last(s) == s[Len(s)]

Front(s) == SubSeq(s, 1, Len(s) - 1)

draw_constant_arm_partial_pop(p, action) ==
    CASE action[1] = "DrawLine" ->
            LET dir == Dir(p.curr_state.radians, action[2])
                end == VecAdd(p.curr_state.position, dir)
            IN  DrawPass(Config(end, p.curr_state.radians), p.stack,
                         Append(p.lines, Line(p.curr_state.position, end, <<"theme">>)),
                         FALSE)
      [] action[1] = "Rotate" ->
            DrawPass(Config(p.curr_state.position, p.curr_state.radians + action[2]),
                     p.stack, p.lines, FALSE)
      [] action[1] = "Push" ->
            DrawPass(p.curr_state, Append(p.stack, p.curr_state), p.lines, FALSE)
      [] action[1] = "Pop" ->
            IF p.stack = << >>
            THEN DrawPass(p.curr_state, p.stack, p.lines, TRUE)
            ELSE DrawPass(Config(Last(p.stack).position, p.curr_state.radians),
                          Front(p.stack), p.lines, FALSE)

draw_constant_arm_rotate_clamps(p, action) ==
    CASE action[1] = "DrawLine" ->
            LET dir == Dir(p.curr_state.radians, action[2])
                end == VecAdd(p.curr_state.position, dir)
            IN  DrawPass(Config(end, p.curr_state.radians), p.stack,
                         Append(p.lines, Line(p.curr_state.position, end, <<"theme">>)),
                         FALSE)
      [] action[1] = "Rotate" ->
            DrawPass(Config(p.curr_state.position, (p.curr_state.radians + action[2]) % 8),
                     p.stack, p.lines, FALSE)
      [] action[1] = "Push" ->
            DrawPass(p.curr_state, Append(p.stack, p.curr_state), p.lines, FALSE)
      [] action[1] = "Pop" ->
            IF p.stack = << >>
            THEN DrawPass(p.curr_state, p.stack, p.lines, TRUE)
            ELSE DrawPass(Last(p.stack), Front(p.stack), p.lines, FALSE)

draw_constant_arm(p, action) ==
    CASE action[1] = "DrawLine" ->
            LET dir == Dir(p.curr_state.radians, action[2])
                end == VecAdd(p.curr_state.position, dir)
            IN  DrawPass(Config(end, p.curr_state.radians), p.stack,
                         Append(p.lines, Line(p.curr_state.position, end, <<"theme">>)),
                         FALSE)
      [] action[1] = "Rotate" ->
            DrawPass(Config(p.curr_state.position, p.curr_state.radians + action[2]),
                     p.stack, p.lines, FALSE)
      [] action[1] = "Push" ->
            DrawPass(p.curr_state, Append(p.stack, p.curr_state), p.lines, FALSE)
      [] action[1] = "Pop" ->
            IF p.stack = << >>
            THEN DrawPass(p.curr_state, p.stack, p.lines, TRUE)
            ELSE DrawPass(Last(p.stack), Front(p.stack), p.lines, FALSE)

draw_variable_arm_turns_on_draw(p, action) ==
    CASE action[1] = "DrawLine" ->
            LET dir == Dir(p.curr_state.radians, action[2])
                end == VecAdd(p.curr_state.position, dir)
            IN  DrawPass(Config(end, p.curr_state.radians + 1), p.stack,
                         Append(p.lines, Line(p.curr_state.position, end, <<"rgb", 0, 0, 0>>)),
                         FALSE)
      [] action[1] = "Rotate" ->
            DrawPass(Config(p.curr_state.position, p.curr_state.radians + action[2]),
                     p.stack, p.lines, FALSE)
      [] action[1] = "Push" ->
            DrawPass(p.curr_state, Append(p.stack, p.curr_state), p.lines, FALSE)
      [] action[1] = "Pop" ->
            IF p.stack = << >>
            THEN DrawPass(p.curr_state, p.stack, p.lines, TRUE)
            ELSE DrawPass(Last(p.stack), Front(p.stack), p.lines, FALSE)

draw_variable_arm(p, action) ==
    CASE action[1] = "DrawLine" ->
            LET dir == Dir(p.curr_state.radians, action[2])
                end == VecAdd(p.curr_state.position, dir)
            IN  DrawPass(Config(end, p.curr_state.radians), p.stack,
                         Append(p.lines, Line(p.curr_state.position, end, <<"rgb", 0, 0, 0>>)),
                         FALSE)
      [] action[1] = "Rotate" ->
            DrawPass(Config(p.curr_state.position, p.curr_state.radians + action[2]),
                     p.stack, p.lines, FALSE)
      [] action[1] = "Push" ->
            DrawPass(p.curr_state, Append(p.stack, p.curr_state), p.lines, FALSE)
      [] action[1] = "Pop" ->
            IF p.stack = << >>
            THEN DrawPass(p.curr_state, p.stack, p.lines, TRUE)
            ELSE DrawPass(Last(p.stack), Front(p.stack), p.lines, FALSE)

draw_arm(symbol, p, action) ==
    IF symbol.kind = "Constant"
    THEN draw_constant_arm(p, action)
    ELSE draw_variable_arm(p, action)

----------------------------------------------------------------------------
(* get_drawing_dimensions *)

DimsPass(cs, st, min, max, panicked) ==
    [curr_state |-> cs, stack |-> st, min |-> min, max |-> max,
     panicked |-> panicked]

\* the four ifs after `curr_state.position += dir`
update_min(min, position) ==
    Vec(IF Less(position.x, min.x) THEN position.x ELSE min.x,
        IF Less(position.y, min.y) THEN position.y ELSE min.y)

update_max_x_only(max, position) ==
    Vec(IF Less(max.x, position.x) THEN position.x ELSE max.x, max.y)

update_max(max, position) ==
    Vec(IF Less(max.x, position.x) THEN position.x ELSE max.x,
        IF Less(max.y, position.y) THEN position.y ELSE max.y)

dims_constant_arm(p, action) ==
    CASE action[1] = "DrawLine" ->
            LET dir == Dir(p.curr_state.radians, action[2])
                position == VecAdd(p.curr_state.position, dir)
            IN  DimsPass(Config(position, p.curr_state.radians), p.stack,
                         update_min(p.min, position), update_max(p.max, position),
                         FALSE)
      [] action[1] = "Rotate" ->
            DimsPass(Config(p.curr_state.position, p.curr_state.radians + action[2]),
                     p.stack, p.min, p.max, FALSE)
      [] action[1] = "Push" ->
            DimsPass(p.curr_state, Append(p.stack, p.curr_state), p.min, p.max, FALSE)
      [] action[1] = "Pop" ->
            IF p.stack = << >>
            THEN DimsPass(p.curr_state, p.stack, p.min, p.max, TRUE)
            ELSE DimsPass(Last(p.stack), Front(p.stack), p.min, p.max, FALSE)

dims_variable_arm_half_step(p, action) ==
    CASE action[1] = "DrawLine" ->
            LET dir == Dir(p.curr_state.radians, action[2] \div 2)
                position == VecAdd(p.curr_state.position, dir)
            IN  DimsPass(Config(position, p.curr_state.radians), p.stack,
                         update_min(p.min, position), update_max(p.max, position),
                         FALSE)
      [] action[1] = "Rotate" ->
            DimsPass(Config(p.curr_state.position, p.curr_state.radians + action[2]),
                     p.stack, p.min, p.max, FALSE)
      [] action[1] = "Push" ->
            DimsPass(p.curr_state, Append(p.stack, p.curr_state), p.min, p.max, FALSE)
      [] action[1] = "Pop" ->
            IF p.stack = << >>
            THEN DimsPass(p.curr_state, p.stack, p.min, p.max, TRUE)
            ELSE DimsPass(Last(p.stack), Front(p.stack), p.min, p.max, FALSE)

dims_variable_arm(p, action) ==
    CASE action[1] = "DrawLine" ->
            LET dir == Dir(p.curr_state.radians, action[2])
                position == VecAdd(p.curr_state.position, dir)
            IN  DimsPass(Config(position, p.curr_state.radians), p.stack,
                         update_min(p.min, position), update_max(p.max, position),
                         FALSE)
      [] action[1] = "Rotate" ->
            DimsPass(Config(p.curr_state.position, p.curr_state.radians + action[2]),
                     p.stack, p.min, p.max, FALSE)
      [] action[1] = "Push" ->
            DimsPass(p.curr_state, Append(p.stack, p.curr_state), p.min, p.max, FALSE)
      [] action[1] = "Pop" ->
            IF p.stack = << >>
            THEN DimsPass(p.curr_state, p.stack, p.min, p.max, TRUE)
            ELSE DimsPass(Last(p.stack), Front(p.stack), p.min, p.max, FALSE)

dims_arm(symbol, p, action) ==
    IF symbol.kind = "Constant"
    THEN dims_constant_arm(p, action)
    ELSE dims_variable_arm(p, action)

\* the inner for loop of get_drawing_dimensions, from action k on
RECURSIVE dims_actions(_, _, _)
dims_actions(symbol, p, k) ==
    IF p.panicked \/ k > Len(symbol.actions)
    THEN p
    ELSE dims_actions(symbol, dims_arm(symbol, p, symbol.actions[k]), k + 1)

\* the outer for loop of get_drawing_dimensions over the symbols lo..hi,
\* evaluated as the run over lo..mid followed by the run over mid+1..hi
RECURSIVE dims_symbols(_, _, _, _)
dims_symbols(symbols, p, lo, hi) ==
    IF p.panicked \/ lo > hi
    THEN p
    ELSE IF lo = hi
         THEN dims_actions(symbols[lo], p, 1)
         ELSE LET mid == (lo + hi) \div 2
              IN  dims_symbols(symbols, dims_symbols(symbols, p, lo, mid), mid + 1, hi)

\* the locals before the outer loop
dims_begin == DimsPass(axiom_config, << >>, Vec(Zero, Zero), Vec(Zero, Zero), FALSE)

\* the pass at its end: the locals when the loop is left, or at the panic
dims_pass(symbols) ==
    dims_symbols(symbols, dims_begin, 1, Len(symbols))

\* the pass when its loops stand at action k of symbol n: the locals after
\* the symbols before n and the first k - 1 actions of symbol n
dims_at(symbols, n, k) ==
    LET p == dims_symbols(symbols, dims_begin, 1, n - 1)
    IN  IF n > Len(symbols)
        THEN p
        ELSE dims_actions([symbols[n] EXCEPT !.actions = SubSeq(@, 1, k - 1)], p, 1)

\* the call's outcome: the Vector2 returned, or panicked where
\* stack.pop().unwrap() ended the pass (value is then not returned)
get_drawing_dimensions(lsys) ==
    LET p == dims_pass(lsys.state)
    IN  [panicked |-> p.panicked,
         value |-> Vec(Sub(p.max.x, p.min.x), Sub(p.max.y, p.min.y))]

----------------------------------------------------------------------------
(* proceed_system *)

\* the for loop building new_state, over the symbols lo..hi (what the
\* symbols lo..mid append, then what mid+1..hi append); the body calls
\* rules1 whatever `rules` is
RECURSIVE new_state_keeps_variable(_, _, _, _)
new_state_keeps_variable(symbols, rules, lo, hi) ==
    IF lo > hi
    THEN << >>
    ELSE IF lo = hi
         THEN IF symbols[lo].kind = "Constant"
              THEN << Constant(symbols[lo].actions) >>
              ELSE << symbols[lo] >> \o rules1(symbols[lo].v)
         ELSE LET mid == (lo + hi) \div 2
              IN  new_state_keeps_variable(symbols, rules, lo, mid)
                      \o new_state_keeps_variable(symbols, rules, mid + 1, hi)

RECURSIVE new_state(_, _, _, _)
new_state(symbols, rules, lo, hi) ==
    IF lo > hi
    THEN << >>
    ELSE IF lo = hi
         THEN IF symbols[lo].kind = "Constant"
              THEN << Constant(symbols[lo].actions) >>
              ELSE rules1(symbols[lo].v)
         ELSE LET mid == (lo + hi) \div 2
              IN  new_state(symbols, rules, lo, mid)
                      \o new_state(symbols, rules, mid + 1, hi)

\* the LSystem after the call; panicked where get_drawing_dimensions
\* panics, which leaves lsys.state assigned and lsys.dimensions not
proceed_system_stale_dimensions(lsys, rules) ==
    LET next == new_state(lsys.state, rules, 1, Len(lsys.state))
        dims == get_drawing_dimensions([state |-> next, dimensions |-> lsys.dimensions])
    IN  [state |-> next, dimensions |-> lsys.dimensions, panicked |-> dims.panicked]

proceed_system(lsys, rules) ==
    LET next == new_state(lsys.state, rules, 1, Len(lsys.state))
        dims == get_drawing_dimensions([state |-> next, dimensions |-> lsys.dimensions])
    IN  [state |-> next,
         dimensions |-> IF dims.panicked THEN lsys.dimensions ELSE dims.value,
         panicked |-> dims.panicked]

----------------------------------------------------------------------------
(* The inputs of the input-driven specification *)

SymbolInputs ==
    { Variable("A", <<DrawLine(10)>>),
      Variable("B", <<DrawLine(10)>>),
      Variable("C", <<Rotate(-2), DrawLine(10)>>),
      Constant(<<Push, Rotate(1)>>),
      Constant(<<Pop, Rotate(-1)>>),
      Constant(<<DrawLine(10)>>),
      Constant(<<Rotate(-2)>>) }

RECURSIVE SeqsUpTo(_, _)
SeqsUpTo(S, n) ==
    IF n = 0
    THEN { << >> }
    ELSE LET shorter == SeqsUpTo(S, n - 1)
         IN  shorter \cup { Append(q, x) : q \in shorter, x \in S }

StateInputs == SeqsUpTo(SymbolInputs, MaxLen)

DimensionInputs == { Vec(Zero, Zero), Vec(Zero, Num(10)) }

\* rule functions a caller can pass: rules1, and one with other productions
rules1_fn == [v \in Variables |-> rules1(v)]

rules2_fn == [v \in Variables |->
                IF v = "A" THEN << Constant(<<Rotate(1)>>), Variable("B", <<DrawLine(10)>>) >>
                ELSE << >>]

RulesInputs == { rules1_fn, rules2_fn }

----------------------------------------------------------------------------
(* The program: model() builds the LSystem, view() draws it every frame *)

InitLocals ==
    /\ gen = 0
    /\ old = << >>
    /\ rules_arg = rules1_fn
    /\ pc = "model"
    /\ i = 1
    /\ j = 1
    /\ curr_state = axiom_config
    /\ stack = << >>
    /\ lines = << >>
    /\ trace = << >>

Init ==
    /\ state = axiom.state
    /\ dimensions = axiom.dimensions
    /\ InitLocals

InitAny ==
    /\ state \in StateInputs
    /\ dimensions \in DimensionInputs
    /\ InitLocals

lsys == [state |-> state, dimensions |-> dimensions]

\* one proceed_system(&mut sys, rules) of model()
ProceedSystem(rules, limit) ==
    /\ pc = "model"
    /\ gen < limit
    /\ LET next == proceed_system(lsys, rules)
       IN  /\ state' = next.state
           /\ dimensions' = next.dimensions
           /\ pc' = IF next.panicked THEN "panicked" ELSE "model"
    /\ old' = state
    /\ rules_arg' = rules
    /\ gen' = gen + 1
    /\ UNCHANGED <<i, j, curr_state, stack, lines, trace>>

\* view() calls model.draw(): the statements before the outer loop
DrawBegin ==
    /\ pc \in {"model", "idle"}
    /\ pc' = "draw"
    /\ curr_state' = Config(Vec(axiom_config.position.x,
                                Sub(axiom_config.position.y, Half(dimensions.y))),
                            axiom_config.radians)
    /\ stack' = << >>
    /\ lines' = << >>
    /\ i' = 1
    /\ j' = 1
    /\ trace' = << [curr_state |-> curr_state', stack |-> << >>] >>
    /\ UNCHANGED <<state, dimensions, gen, old, rules_arg>>

\* one iteration of the inner loop, or its end and the next symbol
DrawStep ==
    /\ pc = "draw"
    /\ i <= Len(state)
    /\ IF j > Len(state[i].actions)
       THEN /\ i' = i + 1
            /\ j' = 1
            /\ UNCHANGED <<pc, curr_state, stack, lines, trace>>
       ELSE LET p == draw_arm(state[i], DrawPass(curr_state, stack, lines, FALSE),
                              state[i].actions[j])
            IN  /\ curr_state' = p.curr_state
                /\ stack' = p.stack
                /\ lines' = p.lines
                /\ pc' = IF p.panicked THEN "panicked" ELSE "draw"
                /\ trace' = IF p.panicked THEN trace
                            ELSE Append(trace, [curr_state |-> p.curr_state,
                                                stack |-> p.stack])
                /\ j' = IF p.panicked THEN j ELSE j + 1
                /\ i' = i
    /\ UNCHANGED <<state, dimensions, gen, old, rules_arg>>

\* the outer loop is left and draw returns
DrawReturn ==
    /\ pc = "draw"
    /\ i > Len(state)
    /\ pc' = "idle"
    /\ UNCHANGED <<state, dimensions, gen, old, rules_arg, i, j, curr_state,
                   stack, lines, trace>>

ModelStep == ProceedSystem(rules1_fn, MaxGen)

Next == ModelStep \/ DrawBegin \/ DrawStep \/ DrawReturn

Spec == Init /\ [][Next]_vars

ModelStepAny == \E rules \in RulesInputs : ProceedSystem(rules, MaxGenAny)

NextAny == ModelStepAny \/ DrawBegin \/ DrawStep \/ DrawReturn

SpecAny == InitAny /\ [][NextAny]_vars

----------------------------------------------------------------------------
(* Vocabulary of the properties *)

\* the actions of the symbols lo..hi in execution order
RECURSIVE ActionStream(_, _, _)
ActionStream(symbols, lo, hi) ==
    IF lo > hi
    THEN << >>
    ELSE IF lo = hi
         THEN symbols[lo].actions
         ELSE LET mid == (lo + hi) \div 2
              IN  ActionStream(symbols, lo, mid) \o ActionStream(symbols, mid + 1, hi)

Stream == ActionStream(state, 1, Len(state))

\* number of actions of the stream executed by the running (or finished) draw
Executed == Len(trace) - 1

\* number of `op` actions among the first k
CountOp(actions, op, k) == Cardinality({ n \in 1..k : actions[n][1] = op })

Min(a, b) == IF a < b THEN a ELSE b

Max(a, b) == IF a < b THEN b ELSE a

\* Push counts 1 and Pop -1: the sum over the actions lo..hi (net) and the
\* smallest and largest sum over their non-empty prefixes (low, high)
RECURSIVE Balance(_, _, _)
Balance(actions, lo, hi) ==
    IF lo = hi
    THEN LET d == CASE actions[lo][1] = "Push" -> 1
                    [] actions[lo][1] = "Pop" -> -1
                    [] OTHER -> 0
         IN  [net |-> d, low |-> d, high |-> d]
    ELSE LET mid == (lo + hi) \div 2
             l == Balance(actions, lo, mid)
             r == Balance(actions, mid + 1, hi)
         IN  [net |-> l.net + r.net, low |-> Min(l.low, l.net + r.low),
              high |-> Max(l.high, l.net + r.high)]

\* index of the Push that the Pop at index k closes (0 if none), by
\* counting brackets backwards from k - 1 with `open` Pops to skip
RECURSIVE MatchingPush(_, _, _)
MatchingPush(actions, k, open) ==
    IF k = 0
    THEN 0
    ELSE CASE actions[k][1] = "Push" ->
                 IF open = 0 THEN k ELSE MatchingPush(actions, k - 1, open - 1)
           [] actions[k][1] = "Pop" -> MatchingPush(actions, k - 1, open + 1)
           [] OTHER -> MatchingPush(actions, k - 1, open)

\* what a symbol becomes under a rule table, as the contract states it
Produces(symbol, rules) ==
    IF symbol.kind = "Constant" THEN << symbol >> ELSE rules[symbol.v]

\* number of symbols that the symbols before index n become
RECURSIVE Offset(_, _, _)
Offset(symbols, rules, n) ==
    IF n <= 1
    THEN 0
    ELSE Offset(symbols, rules, n - 1) + Len(Produces(symbols[n - 1], rules))

\* `after` is `before` with every symbol replaced, in place and in order
Layout(before, after, rules) ==
    /\ Len(after) = Offset(before, rules, Len(before) + 1)
    /\ \A n \in 1..Len(before) :
          \A k \in 1..Len(Produces(before[n], rules)) :
             after[Offset(before, rules, n) + k] = Produces(before[n], rules)[k]

CountSymbols(symbols, kind, v) ==
    Cardinality({ n \in 1..Len(symbols) :
                    /\ symbols[n].kind = kind
                    /\ kind = "Variable" => symbols[n].v = v })

HasProduction(symbol) == symbol.kind = "Constant" \/ symbol.v \in {"A", "B"}

----------------------------------------------------------------------------
(* C1..C10 *)

\* C1: after proceed_system with the rule table rules1 the new generation is
\* the old one scanned in order, every Constant copied with its action list,
\* every Variable(v, _) replaced by the production of v in the production's
\* order, its own actions discarded, and nothing else added or removed.
C1_RewriteInOrder ==
    (gen >= 1 /\ rules_arg = rules1_fn) => Layout(old, state, rules_arg)

C1_Witness ==
    /\ gen >= 1
    /\ rules_arg = rules1_fn
    /\ old = << Constant(<<Push, Rotate(1)>>), Variable("A", <<DrawLine(10)>>) >>
    /\ Len(state) = 6
    /\ state[1] = old[1]
    /\ state[2] = Variable("B", <<DrawLine(10)>>)

\* C2: the rule function passed to proceed_system decides the productions:
\* after proceed_system(lsys, rules) every Variable(v, _) of the old state
\* has been replaced by rules(v).
C2_RulesArgumentDecides ==
    gen >= 1 => Layout(old, state, rules_arg)

\* C3: a Pop on an empty save stack ends the pass with a recoverable error
\* and control returns to the caller: the process never panics, neither in
\* draw nor in the get_drawing_dimensions of proceed_system.
C3_PopOnEmptyIsRecoverable ==
    pc # "panicked"

\* C4: at every generation of the reference axiom under rules1 the action
\* stream has as many Push as Pop, no prefix has more Pops than Pushes, no
\* pass panics, and both passes end with an empty stack.
C4_ReferenceBalanced ==
    /\ pc # "panicked"
    /\ LET s == Stream
           b == Balance(s, 1, Len(s))
       IN  /\ CountOp(s, "Push", Len(s)) = CountOp(s, "Pop", Len(s))
           /\ b.net = 0
           /\ b.low >= 0
    /\ LET p == dims_pass(state)
       IN  ~p.panicked /\ p.stack = << >>
    /\ (pc = "idle" \/ (pc = "draw" /\ i > Len(state))) => stack = << >>

C4_Witness ==
    /\ gen >= 2
    /\ pc = "idle"
    /\ LET s == Stream
       IN  CountOp(s, "Pop", Len(s)) >= 3 /\ Executed = Len(s)

\* C5: the cursor after a Pop is, position and heading together, the cursor
\* at the moment of the matching Push, whatever was drawn, turned, pushed and
\* popped in between, and the stack is the stack from before that Push.
C5_PopRestoresPush ==
    LET s == Stream
        m == MatchingPush(s, Executed - 1, 0)
    IN  (pc \in {"draw", "idle"} /\ Executed >= 1 /\ s[Executed][1] = "Pop") =>
            /\ m >= 1
            /\ curr_state = trace[m].curr_state
            /\ stack = trace[m].stack
            /\ trace[m + 1].stack = Append(trace[m].stack, trace[m].curr_state)

\* a Pop that closes a Push with a line, a turn and a nested Push/Pop in
\* between, and that moved the cursor back
C5_Witness ==
    /\ pc = "draw"
    /\ Executed >= 1
    /\ LET s == Stream
           m == MatchingPush(s, Executed - 1, 0)
       IN  /\ s[Executed][1] = "Pop"
           /\ m >= 1
           /\ \E k \in (m + 1)..(Executed - 1) : s[k][1] = "Pop"
           /\ \E k \in (m + 1)..(Executed - 1) : s[k][1] = "DrawLine"
           /\ trace[Executed].curr_state.position # curr_state.position
           /\ \E k \in (m + 1)..(Executed - 1) : s[k][1] = "Rotate"
           /\ stack # << >>

\* C6: under rules1 a Variable whose variant is neither A nor B leaves no
\* symbol in the next generation, and the other symbols are rewritten as
\* if it had not been there: Constants stay, A gives 5 symbols, B gives 2.
C6_UnmatchedVariantDropped ==
    gen >= 1 =>
        /\ Len(state) = CountSymbols(old, "Constant", "")
                        + 5 * CountSymbols(old, "Variable", "A")
                        + 2 * CountSymbols(old, "Variable", "B")
        /\ Layout(SelectSeq(old, HasProduction), state, rules1_fn)

C6_Witness ==
    /\ gen >= 1
    /\ Len(old) = 2
    /\ old[1].kind = "Variable" /\ old[1].v = "C"
    /\ old[2].kind = "Variable" /\ old[2].v = "B"
    /\ Len(state) = 2
    /\ pc # "panicked"

C8_VerticallyCentred ==
    /\ dims_pass(state).min.y = Zero
    /\ pc = "idle" =>
          LET ys == { trace[1].curr_state.position.y }
                        \cup { lines[k].end.y : k \in 1..Len(lines) }
              lo == CHOOSE y \in ys : \A z \in ys : ~Less(z, y)
              hi == CHOOSE y \in ys : \A z \in ys : ~Less(y, z)
          IN  lo = Neg(hi)

\* a finished draw of a generation in which a line points downwards
C8_Witness ==
    /\ pc = "idle"
    /\ gen >= 3
    /\ \E k \in 1..Len(lines) : Less(lines[k].end.y, lines[k].start.y)
    /\ trace[1].curr_state.position.y # Zero

\* C9: an action has the same effect in draw whichever kind of symbol
\* carries it: the Constant arm and the Variable arm give the same cursor,
\* the same stack and the same primitives, color included.
C9_ArmsAgree ==
    (pc = "draw" /\ i <= Len(state) /\ j <= Len(state[i].actions)) =>
        LET p == DrawPass(curr_state, stack, lines, FALSE)
        IN  draw_constant_arm(p, state[i].actions[j])
                = draw_variable_arm(p, state[i].actions[j])

\* C10: DrawLine(len) with the cursor at p and heading h adds exactly one
\* line, from p to p + len * (cos h, sin h), moves the cursor to its end
\* and leaves heading and stack as they were; every line of the pass comes
\* from one DrawLine, and DrawLine(10) at (0,0) with heading 0 gives the
\* line (0,0)-(10,0).
C10_DrawLineEffect ==
    LET s == Stream
        before == trace[Executed]
        p == before.curr_state.position
        h == before.curr_state.radians
        end == Vec(Add(p.x, Scale(Cos(h), s[Executed][2])),
                   Add(p.y, Scale(Sin(h), s[Executed][2])))
    IN  /\ pc \in {"draw", "idle"} => Len(lines) = CountOp(s, "DrawLine", Executed)
        /\ (pc \in {"draw", "idle"} /\ Executed >= 1
                /\ s[Executed][1] = "DrawLine") =>
              /\ Last(lines).start = p
              /\ Last(lines).end = end
              /\ curr_state = Config(end, h)
              /\ stack = before.stack
              /\ (p = Vec(Zero, Zero) /\ h = 0 /\ s[Executed][2] = 10) =>
                    Last(lines).end = Vec(<<8, 0>>, Zero)

\* the lone DrawLine(10) of a generation, run at the origin with heading 0
C10_Witness ==
    /\ pc = "draw"
    /\ Executed >= 1
    /\ LET s == Stream
       IN  /\ s[Executed] = DrawLine(10)
           /\ CountOp(s, "DrawLine", Len(s)) = 1
    /\ trace[Executed].curr_state = Config(Vec(Zero, Zero), 0)
    /\ Len(lines) = 1
    /\ lines[1].start = Vec(Zero, Zero)
    /\ lines[1].end = Vec(Num(10), Zero)

----------------------------------------------------------------------------
(* C11..C20 *)

\* C11: one rewrite of the reference axiom with rules1 gives exactly 5
\* symbols, in the order Variable B, Constant [Push, Rotate(+45 deg)],
\* Variable A, Constant [Pop, Rotate(-45 deg)], Variable A.
C11_GenerationOne ==
    gen = 1 =>
        /\ Len(state) = 5
        /\ state[1].kind = "Variable" /\ state[1].v = "B"
        /\ state[2] = Constant(<<Push, Rotate(1)>>)
        /\ state[3].kind = "Variable" /\ state[3].v = "A"
        /\ state[4] = Constant(<<Pop, Rotate(-1)>>)
        /\ state[5].kind = "Variable" /\ state[5].v = "A"

C11_Witness ==
    /\ gen = 1
    /\ old = axiom.state
    /\ pc = "model"
    /\ Len(state) = 5

\* C12: a finished draw has emitted one primitive per draw action of the
\* generation, and for generation 1 of the reference grammar that is 6
\* primitives.
C12_SixPrimitivesAtGenerationOne ==
    pc = "idle" =>
        /\ LET s == Stream
           IN  Len(lines) = CountOp(s, "DrawLine", Len(s))
        /\ gen = 1 => Len(lines) = 6

\* C13: the color of a draw becomes the current color of the cursor: a
\* DrawLine that names no color of its own, run right after a DrawLine
\* emitted with rgb(r, g, b), is emitted with (r, g, b).
C13_ColorInherited ==
    LET s == Stream
        n == Len(lines)
    IN  (/\ pc = "draw"
         /\ i <= Len(state)
         /\ j > 1
         /\ state[i].kind = "Constant"
         /\ state[i].actions[j - 1][1] = "DrawLine"
         /\ Executed >= 2
         /\ s[Executed - 1][1] = "DrawLine"
         /\ lines[n - 1].color[1] = "rgb") =>
            lines[n].color = lines[n - 1].color

\* the symbol-count ceiling a caller configures
SymbolCeiling == 100

\* C15: a rewrite that would produce more symbols than the configured
\* ceiling fails with a resource-limit error instead of building the
\* generation: the LSystem never holds more symbols than the ceiling.
C15_GrowthGuarded ==
    Len(state) <= SymbolCeiling

\* smallest and largest of a non-empty set of coordinates
Lowest(cs) == CHOOSE c \in cs : \A d \in cs : ~Less(d, c)

Highest(cs) == CHOOSE c \in cs : \A d \in cs : ~Less(c, d)

\* the start position of the draw and the end points of its lines
DrawnPoints ==
    { trace[1].curr_state.position } \cup { lines[k].end : k \in 1..Len(lines) }

\* C16: draw and get_drawing_dimensions are the same machine on position
\* and heading: before and after every action the cursor of draw is the
\* cursor of get_drawing_dimensions at the same place moved down by
\* dimensions.y / 2, with the same heading and the same stack depth; draw
\* panics only where get_drawing_dimensions does; and the extent returned
\* is the extent of the start position and line end points of the draw.
C16_PassesAgree ==
    /\ pc = "draw" =>
          LET d == dims_at(state, i, j)
          IN  /\ ~d.panicked
              /\ curr_state.radians = d.curr_state.radians
              /\ curr_state.position =
                    Vec(d.curr_state.position.x,
                        Sub(d.curr_state.position.y, Half(dimensions.y)))
              /\ Len(stack) = Len(d.stack)
    /\ (pc = "panicked" /\ trace # << >>) => dims_pass(state).panicked
    /\ pc = "idle" =>
          LET g == get_drawing_dimensions(lsys)
              xs == { p.x : p \in DrawnPoints }
              ys == { p.y : p \in DrawnPoints }
          IN  /\ ~g.panicked
              /\ g.value = Vec(Sub(Highest(xs), Lowest(xs)),
                               Sub(Highest(ys), Lowest(ys)))

\* a finished draw with lines, turns and a Push/Pop, started below the origin
C16_Witness ==
    /\ pc = "idle"
    /\ Len(lines) >= 3
    /\ dimensions.y # Zero
    /\ dimensions.x # Zero
    /\ LET s == Stream
       IN  CountOp(s, "Pop", Len(s)) >= 1 /\ Executed = Len(s)

\* C17: in get_drawing_dimensions the corners start at the origin and
\* bound the cursor after every action, a Pop included:
\* min <= position <= max and min <= (0,0) <= max in both coordinates,
\* and the (width, height) returned is not negative.
C17_CornersBoundCursor ==
    /\ pc = "draw" =>
          LET d == dims_at(state, i, j)
              position == d.curr_state.position
          IN  /\ ~Less(position.x, d.min.x) /\ ~Less(d.max.x, position.x)
              /\ ~Less(position.y, d.min.y) /\ ~Less(d.max.y, position.y)
              /\ ~Less(Zero, d.min.x) /\ ~Less(d.max.x, Zero)
              /\ ~Less(Zero, d.min.y) /\ ~Less(d.max.y, Zero)
    /\ LET g == get_drawing_dimensions(lsys)
       IN  ~g.panicked => ~Negative(g.value.x) /\ ~Negative(g.value.y)

\* the pass right after a Pop that moved the cursor back inside the corners
C17_Witness ==
    /\ pc = "draw"
    /\ Executed >= 2
    /\ LET s == Stream
           d == dims_at(state, i, j)
       IN  /\ s[Executed][1] = "Pop"
           /\ s[Executed - 1][1] = "DrawLine"
           /\ j > 1
           /\ Less(d.curr_state.position.y, d.max.y)
           /\ Less(d.min.x, d.curr_state.position.x)

\* C18: the reference grammar does not end by itself: every generation of
\* the reference axiom under rules1 holds a Variable A, and every rewrite
\* changes the state and makes it strictly longer.
C18_NeverAFixedPoint ==
    /\ \E n \in 1..Len(state) : state[n].kind = "Variable" /\ state[n].v = "A"
    /\ gen >= 1 => state # old /\ Len(state) > Len(old)
    /\ LET next == new_state(state, rules1_fn, 1, Len(state))
       IN  next # state /\ Len(next) > Len(state)

C18_Witness ==
    /\ gen >= 3
    /\ pc = "model"
    /\ Len(state) > Len(old)
    /\ Len(old) > 5

\* C19: in draw, Rotate(a) adds a to the heading and leaves position and
\* stack as they were; Push appends the cursor to the stack and leaves the
\* cursor as it was; and Rotate, Push and Pop emit no primitive (a pass has
\* as many lines as DrawLines executed).
C19_FrameConditions ==
    LET s == Stream
        before == trace[Executed]
    IN  (pc \in {"draw", "idle"} /\ Executed >= 1) =>
            /\ s[Executed][1] = "Rotate" =>
                  /\ curr_state.radians = before.curr_state.radians + s[Executed][2]
                  /\ curr_state.position = before.curr_state.position
                  /\ stack = before.stack
            /\ s[Executed][1] = "Push" =>
                  /\ stack = Append(before.stack, before.curr_state)
                  /\ Len(stack) = Len(before.stack) + 1
                  /\ curr_state = before.curr_state
            /\ s[Executed][1] # "DrawLine" =>
                  Len(lines) = CountOp(s, "DrawLine", Executed - 1)

\* a Rotate to a heading below 0, after lines were drawn and a Pop
C19_Witness ==
    /\ pc = "draw"
    /\ Executed >= 2
    /\ LET s == Stream
       IN  s[Executed][1] = "Rotate" /\ s[Executed - 1][1] = "Pop"
    /\ curr_state.radians < 0
    /\ lines # << >>

\* C20: while generation N of the reference axiom under rules1 is
\* interpreted the save stack never holds more than N cursors, in draw and
\* in get_drawing_dimensions, and for N >= 1 it does hold N at some point.
C20_StackDepthIsGeneration ==
    /\ pc \in {"draw", "idle"} => Len(stack) <= gen
    /\ LET s == Stream
           b == Balance(s, 1, Len(s))
       IN  /\ b.high <= gen
           /\ gen >= 1 => b.high = gen
    /\ pc = "idle" => \E k \in 1..Len(trace) : Len(trace[k].stack) = gen

C20_Witness ==
    /\ pc = "draw"
    /\ gen >= 3
    /\ Len(stack) = gen

====
